---- MODULE Spec2Model ----
(***************************************************************************)
(* Model of sos/collector/clusters/__init__.py: the Cluster profile base   *)
(* class of sos collect.                                                   *)
(*                                                                         *)
(* A Python str is a sequence of one-character strings.  A Python value    *)
(* that may be None, a str or a list of str is a record [type, val] whose  *)
(* val is always a sequence of strs (one str for type "str", none for      *)
(* "NoneType").  The outcome of a call is a record                         *)
(* [kind, val, exc, log]: kind is "return" or "raise", val the returned    *)
(* value, exc the class of the raised exception, log the records the call  *)
(* sent to the 'sos' logger.                                               *)
(***************************************************************************)
EXTENDS Integers, Sequences, FiniteSets, TLC

VARIABLES
    cls,        \* self.__class__.__name__
    self,       \* the instance: master, cluster_ssh_key, cluster_type, node_list, options
    opts,       \* commons['cmdlineopts'].cluster_options
    get_nodes,  \* what the profile's get_nodes() does when called
    run_extra_cmd, \* what the profile's run_extra_cmd() does when called
    primary,    \* the primary node proxy: installed packages, run_command result
    call,       \* the last method call: its name and arguments
    ret,        \* the outcome of the last method call
    prev,       \* the outcome of the format_node_list() call before the last
    clusters,   \* driver: the profile classes in detection order
    queried,    \* driver: how many of them have been asked check_enabled()
    cluster     \* driver: the selected profile class, or None

vars == <<cls, self, opts, get_nodes, run_extra_cmd, primary, call, ret, prev,
          clusters, queried, cluster>>

None == [type |-> "NoneType", val |-> <<>>]
PyStr(s) == [type |-> "str", val |-> <<s>>]
PyList(l) == [type |-> "list", val |-> l]

Return(v, l) == [kind |-> "return", val |-> v, exc |-> "", log |-> l]
Raise(e, l) == [kind |-> "raise", val |-> <<>>, exc |-> e, log |-> l]
NoCall == [op |-> "", arg |-> <<>>]
NoRet == [kind |-> "", val |-> <<>>, exc |-> "", log |-> <<>>]

Range(s) == {s[i] : i \in 1..Len(s)}

\* ------------------------------------------------------------------ bounds
MaxNodes == 3
MaxChunks == 3
MaxFiles == 2
MaxCliOpts == 2
MaxProfiles == 3

\* ------------------------------------------------------------- python str
Whitespace == {" ", "\t", "\n", "\r"}

RECURSIVE lstrip(_)
lstrip(s) ==
    IF s # <<>> /\ Head(s) \in Whitespace THEN lstrip(Tail(s)) ELSE s

RECURSIVE rstrip(_)
rstrip(s) ==
    IF s # <<>> /\ s[Len(s)] \in Whitespace
    THEN rstrip(SubSeq(s, 1, Len(s) - 1)) ELSE s

strip(s) == rstrip(lstrip(s))

\* s.startswith(p)
startswith(s, p) == Len(s) >= Len(p) /\ SubSeq(s, 1, Len(p)) = p

\* sub in s
contains(s, sub) ==
    \E i \in 1..(Len(s) - Len(sub) + 1) : SubSeq(s, i, i + Len(sub) - 1) = sub

\* s.replace(old, new): one pass, left to right, over non-overlapping matches
RECURSIVE replace(_, _, _)
replace(s, old, new) ==
    IF s = <<>> THEN <<>>
    ELSE IF startswith(s, old)
         THEN new \o replace(SubSeq(s, Len(old) + 1, Len(s)), old, new)
         ELSE <<Head(s)>> \o replace(Tail(s), old, new)

\* list.remove(x): drops the first occurrence
RECURSIVE remove(_, _)
remove(l, x) ==
    IF l = <<>> THEN <<>>
    ELSE IF Head(l) = x THEN Tail(l) ELSE <<Head(l)>> \o remove(Tail(l), x)

\* list(set(l)): the distinct elements of l, in an order the build chooses
list_set(l) ==
    LET S == Range(l)
        n == Cardinality(S)
    IN  {f \in [1..n -> S] : \A i, j \in 1..n : i # j => f[i] # f[j]}

\* ---------------------------------------------------------------- logging
\* log_error(): soslog.error(msg)
log_error(msg) == [level |-> "error", msg |-> msg]
\* _fmt_msg(): '[%s] %s' % (self.cluster_type[0], msg)
_fmt_msg(me, msg) == <<"[", me.cluster_type[1], "] ">> \o msg
\* log_debug(): soslog.debug(self._fmt_msg(msg))
log_debug(me, msg) == [level |-> "debug", msg |-> _fmt_msg(me, msg)]

\* ------------------------------------------------------ format_node_list
\* node.startswith(('-', '_', '(', ')', '[', ']', '/', '\\'))
ArtifactPrefixes == {"-", "_", "(", ")", "[", "]", "/", "\\"}
is_artifact(node) == \E p \in ArtifactPrefixes : startswith(node, <<p>>)

\* [n.strip() for n in nodes if n]
RECURSIVE strip_each(_)
strip_each(nodes) ==
    IF nodes = <<>> THEN <<>>
    ELSE IF Head(nodes) # <<>>
         THEN <<strip(Head(nodes))>> \o strip_each(Tail(nodes))
         ELSE strip_each(Tail(nodes))

\* for node in node_list: if node.startswith(...): node_list.remove(node)
\* The for loop reads node_list by index i while the body shortens it.
RECURSIVE remove_artifacts(_, _)
remove_artifacts(node_list, i) ==
    IF i > Len(node_list) THEN node_list
    ELSE IF is_artifact(node_list[i])
         THEN remove_artifacts(remove(node_list, node_list[i]), i + 1)
         ELSE remove_artifacts(node_list, i + 1)

\* The node_list built by the isinstance branches, as an outcome: the str
\* branch calls n.split(',').strip() on every character n of the string, and
\* a list has no strip(); with neither branch taken node_list is unbound.
collect_nodes(nodes) ==
    IF nodes.type = "list" THEN Return(strip_each(nodes.val), <<>>)
    ELSE IF nodes.type = "str"
         THEN IF nodes.val[1] = <<>> THEN Return(<<>>, <<>>)
              ELSE Raise("AttributeError", <<>>)
         ELSE Raise("UnboundLocalError", <<>>)

\* The outcomes of format_node_list(): one per order of list(set(node_list))
format_node_list(me, hook) ==
    IF hook.kind = "raise"
    THEN {Raise(hook.exc,
                <<log_error(<<"Cluster failed to enumerate nodes: ", hook.exc>>)>>)}
    ELSE LET c == collect_nodes(hook.val)
         IN  IF c.kind = "raise" THEN {c}
             ELSE {Return(remove_artifacts(l, 1), <<>>) : l \in list_set(c.val)}

\* _get_nodes() with except AttributeError in place of except Exception
_get_nodes_except_attribute_error(me, hook) ==
    {IF r.kind = "raise" /\ r.exc = "AttributeError"
     THEN Return(<<>>, r.log \o
                 <<log_debug(me, <<"Failed to get node list: ", r.exc>>)>>)
     ELSE r : r \in format_node_list(me, hook)}

\* _get_nodes(): try format_node_list() except Exception
_get_nodes(me, hook) ==
    {IF r.kind = "raise"
     THEN Return(<<>>, r.log \o
                 <<log_debug(me, <<"Failed to get node list: ", r.exc>>)>>)
     ELSE r : r \in format_node_list(me, hook)}

\* ----------------------------------------------------------- the classes
\* The profile classes of a run: each one's __bases__, and the class
\* attributes it sets itself (a class that does not set one finds it on its
\* first base, as attribute lookup does, down to Cluster's own).
Classes == {"Pacemaker", "Kubernetes", "ovirt", "rhv", "rhhi_virt"}

ClassTable ==
    [c \in Classes |->
       CASE c = "Pacemaker" ->
              [bases |-> <<"Cluster">>, sets |-> {"option_list", "packages"},
               option_list |-> << <<"timeout", "30", "fence timeout">> >>,
               packages |-> <<"pacemaker">>]
         [] c = "Kubernetes" ->
              [bases |-> <<"Cluster">>, sets |-> {"option_list", "packages"},
               option_list |-> << <<"timeout", "60", "api timeout">>,
                                  <<"label", "", "node label">> >>,
               packages |-> <<"kubernetes-master", "kubelet">>]
         [] c = "ovirt" ->
              [bases |-> <<"Cluster">>, sets |-> {"option_list", "packages"},
               option_list |-> << <<"no-database", "False", "no db dump">> >>,
               packages |-> <<"ovirt-engine">>]
         [] c = "rhv" ->
              [bases |-> <<"ovirt">>, sets |-> {"packages"},
               option_list |-> <<>>,
               packages |-> <<"rhevm", "rhvm">>]
         [] c = "rhhi_virt" ->
              [bases |-> <<"rhv">>, sets |-> {},
               option_list |-> <<>>,
               packages |-> <<>>]]

\* Cluster.option_list = [] and Cluster.packages = ('',)
RECURSIVE class_attr(_, _)
class_attr(c, attr) ==
    IF c = "Cluster"
    THEN (IF attr = "packages" THEN <<"">> ELSE <<>>)
    ELSE IF attr \in ClassTable[c].sets
         THEN ClassTable[c][attr]
         ELSE class_attr(ClassTable[c].bases[1], attr)

\* ------------------------------------------------------------- __init__
\* for cls in self.__class__.__bases__: if cls.__name__ != 'Cluster': append
RECURSIVE base_names(_)
base_names(bases) ==
    IF bases = <<>> THEN <<>>
    ELSE IF Head(bases) # "Cluster"
         THEN <<Head(bases)>> \o base_names(Tail(bases))
         ELSE base_names(Tail(bases))

cluster_type_of(c) == <<c>> \o base_names(ClassTable[c].bases)

\* _get_options(): one ClusterOption per entry of self.option_list
_get_options(c, cluster_type) ==
    LET ol == class_attr(c, "option_list")
    IN  [i \in 1..Len(ol) |->
           [name |-> ol[i][1], value |-> ol[i][2], cluster |-> cluster_type,
            description |-> ol[i][3]]]

__init__(c) ==
    [master |-> "None", cluster_ssh_key |-> "None",
     cluster_type |-> cluster_type_of(c), node_list |-> "None",
     options |-> _get_options(c, cluster_type_of(c))]

\* ------------------------------------------------------------ get_option
\* first opt of l with opt.name == option (and, for the CLI's, opt.cluster
\* in self.cluster_type), as its index; 0 when the loop ends without one
RECURSIVE first_match(_, _, _, _)
first_match(l, i, option, scope) ==
    IF i > Len(l) THEN 0
    ELSE IF l[i].name = option /\ (scope = {} \/ l[i].cluster \in scope)
         THEN i
         ELSE first_match(l, i + 1, option, scope)

\* get_option() with the two loops swapped: the defaults before the CLI
get_option_defaults_first(me, cluster_options, option) ==
    LET cli == first_match(cluster_options, 1, option, Range(me.cluster_type))
        def == first_match(me.options, 1, option, {})
    IN  IF def # 0 THEN Return(me.options[def].value, <<>>)
        ELSE IF cli # 0 THEN Return(cluster_options[cli].value, <<>>)
        ELSE Return("False", <<>>)

get_option(me, cluster_options, option) ==
    LET cli == first_match(cluster_options, 1, option, Range(me.cluster_type))
        def == first_match(me.options, 1, option, {})
    IN  IF cli # 0 THEN Return(cluster_options[cli].value, <<>>)
        ELSE IF def # 0 THEN Return(me.options[def].value, <<>>)
        ELSE Return("False", <<>>)

\* -------------------------------------------------------- check_enabled
\* for pkg in self.packages: if self.master.is_installed(pkg): return True
RECURSIVE any_installed(_, _)
any_installed(packages, installed) ==
    IF packages = <<>> THEN FALSE
    ELSE IF Head(packages) \in installed THEN TRUE
    ELSE any_installed(Tail(packages), installed)

\* check_enabled() asking for the first package only
check_enabled_first_package(c, me, node) ==
    IF me.master = "None" /\ class_attr(c, "packages") # <<>>
    THEN Raise("AttributeError", <<>>)
    ELSE Return(class_attr(c, "packages") # <<>>
                /\ class_attr(c, "packages")[1] \in node.installed, <<>>)

check_enabled(c, me, node) ==
    IF me.master = "None" /\ class_attr(c, "packages") # <<>>
    THEN Raise("AttributeError", <<>>)
    ELSE Return(any_installed(class_attr(c, "packages"), node.installed), <<>>)

\* ----------------------------------------------------- exec_primary_cmd
Password == <<"P", "a", "s", "s", "w", "o", "r", "d", ":">>

\* s.replace(old, new, 1)
RECURSIVE replace_first(_, _, _)
replace_first(s, old, new) ==
    IF s = <<>> THEN <<>>
    ELSE IF startswith(s, old)
         THEN new \o SubSeq(s, Len(old) + 1, Len(s))
         ELSE <<Head(s)>> \o replace_first(Tail(s), old, new)

\* exec_primary_cmd() dropping the first 'Password:' only
exec_primary_cmd_first_only(me, node, cmd, need_root) ==
    IF me.master = "None" THEN Raise("AttributeError", <<>>)
    ELSE LET res == node.run_command
         IN  IF res.stdout # <<>>
             THEN Return([res EXCEPT !.stdout = replace_first(res.stdout, Password, <<>>)],
                         <<>>)
             ELSE Return(res, <<>>)

exec_primary_cmd(me, node, cmd, need_root) ==
    IF me.master = "None" THEN Raise("AttributeError", <<>>)
    ELSE LET res == node.run_command
         IN  IF res.stdout # <<>>
             THEN Return([res EXCEPT !.stdout = replace(res.stdout, Password, <<>>)],
                         <<>>)
             ELSE Return(res, <<>>)

exec_master_cmd(me, node, cmd, need_root) ==
    LET r == exec_primary_cmd(me, node, cmd, need_root)
        d == log_debug(me, <<"Use of exec_master_cmd() is deprecated and will be ",
                             "removed. Use exec_primary_cmd() instead">>)
    IN  [r EXCEPT !.log = <<d>> \o r.log]

\* ------------------------------------------------------- _run_extra_cmd
sosreport == <<"s", "o", "s", "r", "e", "p", "o", "r", "t">>
md5 == <<".", "m", "d", "5">>

\* extra_files() with the .md5 files collected after the loop
extra_files_md5_last(res) ==
    LET stripped == [i \in 1..Len(res) |-> strip(res[i])]
    IN  stripped \o
        [i \in 1..Len(SelectSeq(stripped, LAMBDA f : contains(f, sosreport))) |->
           SelectSeq(stripped, LAMBDA f : contains(f, sosreport))[i] \o md5]

\* for extra_file in res: strip, append, and the .md5 of a sosreport
RECURSIVE extra_files(_)
extra_files(res) ==
    IF res = <<>> THEN <<>>
    ELSE LET extra_file == strip(Head(res))
         IN  <<extra_file>>
             \o (IF contains(extra_file, sosreport) THEN <<extra_file \o md5>> ELSE <<>>)
             \o extra_files(Tail(res))

\* bool(res): None, '' and [] are false
truthy(v) ==
    /\ v.type # "NoneType"
    /\ v.type = "str" => v.val[1] # <<>>
    /\ v.type = "list" => v.val # <<>>

\* A profile without run_extra_cmd raises AttributeError at the call, which
\* the except clause takes like one raised inside the hook; any other
\* exception leaves _run_extra_cmd().
_run_extra_cmd(hook) ==
    IF hook.kind = "missing" THEN Return(<<>>, <<>>)
    ELSE IF hook.kind = "raise"
         THEN (IF hook.exc = "AttributeError" THEN Return(<<>>, <<>>)
               ELSE Raise(hook.exc, <<>>))
         ELSE IF truthy(hook.val) THEN Return(extra_files(hook.val.val), <<>>)
              ELSE Return(<<>>, <<>>)

\* ------------------------------------------------------------ the worlds
\* What surrounds the profile in a run: the hooks a subclass supplies, the
\* command line, the primary node.  Init draws it; the methods read it.
SeqsUpTo(S, n) == UNION {[1..k -> S] : k \in 0..n}

Returns(v) == [kind |-> "return", val |-> v, exc |-> ""]
Raises(e) == [kind |-> "raise", val |-> None, exc |-> e]
Missing == [kind |-> "missing", val |-> None, exc |-> ""]

NodeA == <<"a">>
NodeB == <<"b">>
ExampleNodes == <<" ", " ", "a", " ", ",", " ", "b", ",", "b", " ", ",", " ", "-", "x">>
NodeStrs ==
    {<<>>, <<" ">>, NodeA, <<" ", "a", " ">>, NodeB, <<"-", "x">>, <<"_", "y">>}
GetNodesHooks ==
    {Returns(PyList(l)) : l \in SeqsUpTo(NodeStrs, MaxNodes)}
    \cup {Returns(PyStr(s)) : s \in {<<>>, NodeA, <<"a", ",", "b">>, ExampleNodes}}
    \cup {Returns(None)}
    \cup {Raises(e) : e \in {"RuntimeError", "OSError"}}

ExtraPaths ==
    {<<"s", "o", "s", "r", "e", "p", "o", "r", "t", "-", "d", "b", ".", "t", "a", "r">>,
     <<" ", "s", "o", "s", "r", "e", "p", "o", "r", "t", "-", "x", " ", "\n">>,
     <<"d", "b", ".", "d", "u", "m", "p">>,
     <<" ", "a", ".", "l", "o", "g">>,
     <<"s", "o", "s", "-", "r", "e", "p", "o", "r", "t">>,
     <<"s", "o", "s", "r", "e", "p", "o", "r", "t">>,
     <<>>}
RunExtraCmdHooks ==
    {Returns(PyList(l)) : l \in SeqsUpTo(ExtraPaths, MaxFiles)}
    \cup {Returns(PyStr(s)) : s \in ExtraPaths}
    \cup {Returns(None), Missing}
    \cup {Raises(e) : e \in {"AttributeError", "OSError"}}

SecretValue == <<"s", "e", "c", "r", "e", "t", "v", "a", "l", "u", "e">>
Chunks == {Password, <<"P", "a", "s", "s">>, <<"w", "o", "r", "d", ":">>, <<" ">>, SecretValue}
RECURSIVE Concat(_)
Concat(ss) == IF ss = <<>> THEN <<>> ELSE Head(ss) \o Concat(Tail(ss))
Stdouts == {Concat(cs) : cs \in SeqsUpTo(Chunks, MaxChunks)}
RunCommandResults ==
    [stdout : Stdouts, stderr : {<<>>, Password}, status : {0, 1}]
Commands == {"some-command"}

Packages == {"", "pacemaker", "kubelet", "ovirt-engine", "rhvm"}
DetectionOrders ==
    {o \in SeqsUpTo(Classes, MaxProfiles) : \A i, j \in 1..Len(o) : i # j => o[i] # o[j]}

OptionNames == {"timeout", "no-database", "unknown"}
CliOptions ==
    [name : {"timeout", "no-database"}, cluster : {"Pacemaker", "ovirt", "rhv"},
     value : {"5", "True"}]

DefaultPrimary ==
    [installed |-> {},
     run_command |-> [stdout |-> <<>>, stderr |-> <<>>, status |-> 0]]

\* The state after Cluster.__init__(commons) for class c
Constructed(c) ==
    /\ cls = c
    /\ self = __init__(c)
    /\ call = NoCall
    /\ ret = NoRet
    /\ prev = NoRet
    /\ queried = 0
    /\ cluster = "None"

InitNodes ==
    /\ Constructed("Pacemaker")
    /\ opts = <<>>
    /\ get_nodes \in GetNodesHooks
    /\ run_extra_cmd = Missing
    /\ primary = DefaultPrimary
    /\ clusters = <<>>

InitOptions ==
    /\ \E c \in Classes : Constructed(c)
    /\ opts \in SeqsUpTo(CliOptions, MaxCliOpts)
    /\ get_nodes = Returns(None)
    /\ run_extra_cmd = Missing
    /\ primary = DefaultPrimary
    /\ clusters = <<>>

InitPrimary ==
    /\ Constructed("Pacemaker")
    /\ opts = <<>>
    /\ get_nodes = Returns(None)
    /\ run_extra_cmd = Missing
    /\ primary \in [installed : {{}}, run_command : RunCommandResults]
    /\ clusters = <<>>

InitDetect ==
    /\ Constructed("Pacemaker")
    /\ opts = <<>>
    /\ get_nodes = Returns(None)
    /\ run_extra_cmd = Missing
    /\ primary \in [installed : SUBSET Packages, run_command : {DefaultPrimary.run_command}]
    /\ clusters \in DetectionOrders

InitExtra ==
    /\ Constructed("ovirt")
    /\ opts = <<>>
    /\ get_nodes = Returns(None)
    /\ run_extra_cmd \in RunExtraCmdHooks
    /\ primary = DefaultPrimary
    /\ clusters = <<>>

Init == InitNodes \/ InitOptions \/ InitPrimary \/ InitDetect \/ InitExtra

\* ----------------------------------------------------------- the actions
World == <<cls, opts, get_nodes, run_extra_cmd, primary, clusters>>
Driver == <<queried, cluster>>

FormatNodeList ==
    /\ \E r \in format_node_list(self, get_nodes) : ret' = r
    /\ call' = [op |-> "format_node_list", arg |-> <<>>]
    /\ prev' = IF call.op = "format_node_list" THEN ret ELSE prev
    /\ UNCHANGED <<self, World, Driver>>

GetNodes ==
    /\ \E r \in _get_nodes(self, get_nodes) : ret' = r
    /\ call' = [op |-> "_get_nodes", arg |-> <<>>]
    /\ UNCHANGED <<self, prev, World, Driver>>

GetOption ==
    /\ \E option \in OptionNames :
         /\ ret' = get_option(self, opts, option)
         /\ call' = [op |-> "get_option", arg |-> <<option>>]
    /\ UNCHANGED <<self, prev, World, Driver>>

ExecPrimaryCmd ==
    /\ \E cmd \in Commands, need_root \in BOOLEAN :
         /\ ret' = exec_primary_cmd(self, primary, cmd, need_root)
         /\ call' = [op |-> "exec_primary_cmd", arg |-> <<cmd, need_root>>]
    /\ UNCHANGED <<self, prev, World, Driver>>

ExecMasterCmd ==
    /\ \E cmd \in Commands, need_root \in BOOLEAN :
         /\ ret' = exec_master_cmd(self, primary, cmd, need_root)
         /\ call' = [op |-> "exec_master_cmd", arg |-> <<cmd, need_root>>]
    /\ UNCHANGED <<self, prev, World, Driver>>

RunExtraCmd ==
    /\ ret' = _run_extra_cmd(run_extra_cmd)
    /\ call' = [op |-> "_run_extra_cmd", arg |-> <<>>]
    /\ UNCHANGED <<self, prev, World, Driver>>

\* The driver hands the profile its primary node (self.master = node).
SetPrimary ==
    /\ self.master = "None"
    /\ self' = [self EXCEPT !.master = "primary"]
    /\ UNCHANGED <<call, ret, prev, World, Driver>>

\* The driver's detection loop, one profile per step: it hands the next
\* profile in order the primary node, asks check_enabled(), and stops at the
\* first that answers True.
DetectStep ==
    /\ cluster = "None"
    /\ queried < Len(clusters)
    /\ LET c == clusters[queried + 1]
           r == check_enabled(c, [__init__(c) EXCEPT !.master = "primary"], primary)
       IN  /\ ret' = r
           /\ call' = [op |-> "check_enabled", arg |-> <<c>>]
           /\ queried' = queried + 1
           /\ cluster' = IF r.kind = "return" /\ r.val THEN c ELSE "None"
    /\ UNCHANGED <<self, prev, World>>

NextNodes == FormatNodeList \/ GetNodes
NextOptions == GetOption
NextPrimary == SetPrimary \/ ExecPrimaryCmd \/ ExecMasterCmd
NextDetect == DetectStep
NextExtra == RunExtraCmd

Next == NextNodes \/ NextOptions \/ NextPrimary \/ NextDetect \/ NextExtra

Spec == Init /\ [][Next]_vars
SpecNodes == InitNodes /\ [][NextNodes]_vars
SpecOptions == InitOptions /\ [][NextOptions]_vars
SpecPrimary == InitPrimary /\ [][NextPrimary]_vars
SpecDetect == InitDetect /\ [][NextDetect]_vars
SpecExtra == InitExtra /\ [][NextExtra]_vars

\* ------------------------------------------------------------ the claims
Called(op) == call.op = op
Returned(op) == call.op = op /\ ret.kind = "return"
NoDuplicates(l) == \A i, j \in 1..Len(l) : i # j => l[i] # l[j]

\* C1: whatever get_nodes() returns, the list format_node_list() returns
\* holds no token whose first character is one of - _ ( ) [ ] / \
C1_NoArtifactToken ==
    Returned("format_node_list") =>
        \A i \in 1..Len(ret.val) : ~is_artifact(ret.val[i])

\* C2: when get_nodes() returns a str, format_node_list() returns without
\* raising, and "  a , b,b , -x" normalizes to exactly {"a", "b"}
C2_CommaString ==
    (Called("format_node_list") /\ get_nodes.kind = "return"
        /\ get_nodes.val.type = "str") =>
        /\ ret.kind = "return"
        /\ get_nodes.val.val[1] = ExampleNodes => Range(ret.val) = {NodeA, NodeB}

\* C3: when get_nodes() returns a list of strs, format_node_list() returns a
\* list with no duplicate, no entry with surrounding whitespace, no empty entry
C3_ListNormalized ==
    (Called("format_node_list") /\ get_nodes.kind = "return"
        /\ get_nodes.val.type = "list") =>
        /\ ret.kind = "return"
        /\ NoDuplicates(ret.val)
        /\ \A i \in 1..Len(ret.val) :
             ret.val[i] = strip(ret.val[i]) /\ ret.val[i] # <<>>

\* The default a class declares for an option, as a set: empty when it
\* declares none
DeclaredDefault(c, option) ==
    LET ol == class_attr(c, "option_list")
    IN  {ol[i][2] : i \in {k \in 1..Len(ol) : ol[k][1] = option}}
\* The values the command line gives an option for one of the scopes
Overrides(option, scopes) ==
    {opts[i].value :
       i \in {k \in 1..Len(opts) : opts[k].name = option /\ opts[k].cluster \in scopes}}

\* C4: get_option(name) never raises; it returns a CLI override of that
\* name whose scope is in the profile's type chain when there is one, even
\* over a declared default; without one (the override is a sibling's) it
\* returns the declared default, or False when none is declared
C4_OptionResolution ==
    Called("get_option") =>
        LET own == Overrides(call.arg[1], Range(self.cluster_type))
            def == DeclaredDefault(cls, call.arg[1])
        IN  /\ ret.kind = "return"
            /\ own # {} => ret.val \in own
            /\ (own = {} /\ def # {}) => ret.val \in def
            /\ (own = {} /\ def = {}) => ret.val = "False"

C4_Witness ==
    /\ Called("get_option") /\ call.arg[1] = "timeout"
    /\ cls = "Pacemaker"
    /\ opts = <<[name |-> "timeout", cluster |-> "Pacemaker", value |-> "5"]>>
    /\ ret.val = "5"

\* stdout without the characters of its occurrences of 'Password:' (no two
\* occurrences overlap: the text does not end with a start of itself)
WithoutPassword(s) ==
    LET starts == {i \in 1..Len(s) : startswith(SubSeq(s, i, Len(s)), Password)}
        keep == {j \in 1..Len(s) : \A i \in starts : j < i \/ j >= i + Len(Password)}
        nth(k) == CHOOSE j \in keep : Cardinality({x \in keep : x <= j}) = k
    IN  [k \in 1..Cardinality(keep) |-> s[nth(k)]]

PasswordPrompt == Password \o <<" ">> \o SecretValue

\* C5 as amended: exec_primary_cmd() returns the primary's run_command
\* result with every occurrence of 'Password:' in stdout removed and stderr
\* and the exit status untouched; the blank after the prompt stays, so
\* "Password: secretvalue" becomes " secretvalue"
C5_PasswordRemoved ==
    Returned("exec_primary_cmd") =>
        /\ ret.val.stdout = WithoutPassword(primary.run_command.stdout)
        /\ ret.val.stderr = primary.run_command.stderr
        /\ ret.val.status = primary.run_command.status
        /\ primary.run_command.stdout = PasswordPrompt =>
             ret.val.stdout = <<" ">> \o SecretValue

C5_Witness ==
    /\ Returned("exec_primary_cmd") /\ call.arg[2]
    /\ primary.run_command.stdout = PasswordPrompt
    /\ primary.run_command.stderr = Password
    /\ ret.val.stdout = <<" ">> \o SecretValue

\* C5 as claimed: ... and "Password: secretvalue" becomes "secretvalue"
C5_AsClaimed ==
    Returned("exec_primary_cmd") =>
        /\ ret.val.stdout = WithoutPassword(primary.run_command.stdout)
        /\ ret.val.stderr = primary.run_command.stderr
        /\ ret.val.status = primary.run_command.status
        /\ primary.run_command.stdout = PasswordPrompt =>
             ret.val.stdout = SecretValue

\* C6: _run_extra_cmd() returns [] for a profile without run_extra_cmd; a
\* single path counts as a list of one; each path of the hook appears in
\* order, one that contains "sosreport" immediately followed by itself plus
\* ".md5", and nothing else is in the list
C6_ExtraFiles ==
    Called("_run_extra_cmd") =>
        /\ run_extra_cmd.kind = "missing" => ret = Return(<<>>, <<>>)
        /\ (run_extra_cmd.kind = "return" /\ truthy(run_extra_cmd.val)) =>
             LET paths == run_extra_cmd.val.val
                 archives(i) == {j \in 1..i : contains(paths[j], sosreport)}
                 at(i) == i + Cardinality(archives(i - 1))
             IN  /\ ret.kind = "return"
                 /\ Len(ret.val) = Len(paths) + Cardinality(archives(Len(paths)))
                 /\ \A i \in 1..Len(paths) :
                      /\ ret.val[at(i)] = strip(paths[i])
                      /\ i \in archives(i) =>
                           ret.val[at(i) + 1] = strip(paths[i]) \o md5

SosreportDb == <<"s", "o", "s", "r", "e", "p", "o", "r", "t", "-", "d", "b", ".", "t", "a", "r">>

C6_Witness ==
    /\ Called("_run_extra_cmd")
    /\ run_extra_cmd = Returns(PyStr(SosreportDb))
    /\ ret.val = <<SosreportDb, SosreportDb \o md5>>

\* C7: when get_nodes() raises, format_node_list() logs at error severity
\* and raises the same exception; _get_nodes() never raises, and when
\* get_nodes() raises or returns neither a list nor a str it logs at debug
\* severity and returns []
C7_FailureSemantics ==
    /\ (Called("format_node_list") /\ get_nodes.kind = "raise") =>
         /\ ret.kind = "raise" /\ ret.exc = get_nodes.exc
         /\ Len(ret.log) = 1 /\ ret.log[1].level = "error"
    /\ Called("_get_nodes") =>
         /\ ret.kind = "return"
         /\ (get_nodes.kind = "raise" \/ get_nodes.val.type \notin {"list", "str"}) =>
              /\ ret.val = <<>>
              /\ ret.log # <<>> /\ ret.log[Len(ret.log)].level = "debug"

C7_Witness ==
    /\ Called("_get_nodes")
    /\ get_nodes = Returns(None)
    /\ ret.kind = "return" /\ ret.val = <<>>
    /\ ret.log[1].level = "debug"

\* C8: the profiles are asked check_enabled() in order (true iff a package
\* of the profile is installed on the primary); the first that is active is
\* the one selected, none after it is asked, and no other is selected
C8_FirstActiveWins ==
    LET Active(c) ==
            \E i \in 1..Len(class_attr(c, "packages")) :
               class_attr(c, "packages")[i] \in primary.installed
    IN  /\ queried \in 0..Len(clusters)
        /\ \A i \in 1..queried :
             Active(clusters[i]) <=> (i = queried /\ cluster = clusters[i])
        /\ cluster # "None" => queried >= 1 /\ cluster = clusters[queried]

C8_Witness ==
    /\ Len(clusters) = 3
    /\ queried = 2
    /\ cluster = clusters[2]
    /\ call = [op |-> "check_enabled", arg |-> <<clusters[2]>>]

\* C9: two format_node_list() runs on the same get_nodes() value return the
\* same set of names, and a run leaves the profile's fields as constructed
C9_PureFunction ==
    /\ (Returned("format_node_list") /\ prev.kind = "return") =>
         Range(ret.val) = Range(prev.val)
    /\ Called("format_node_list") => self = __init__(cls)

\* Every profile class a class derives from, Cluster excluded
RECURSIVE Ancestors(_)
Ancestors(c) ==
    UNION {{b} \cup Ancestors(b) : b \in Range(ClassTable[c].bases) \ {"Cluster"}}

\* C10: cluster_type is the class name followed by the names of all its
\* ancestor profile classes, so get_option() returns a CLI override scoped
\* to any ancestor, at any depth
C10_AncestorScope ==
    Called("get_option") =>
        /\ self.cluster_type[1] = cls
        /\ Range(self.cluster_type) = {cls} \cup Ancestors(cls)
        /\ Overrides(call.arg[1], Ancestors(cls)) # {} =>
             ret.val \in Overrides(call.arg[1], {cls} \cup Ancestors(cls))

====
